---- MODULE Spec2Model ----
(***************************************************************************)
(* A model of the particle bunch (src/Project/Bunch.py) and of the         *)
(* synchrocyclotron recording script                                       *)
(* (src/Project/RecordSynchrocyclotron.py).                                *)
(*                                                                         *)
(* Python objects live in two stores: heap holds the particle objects and  *)
(* objs the Bunch objects; an object's identity is its index in its store, *)
(* so that a list of members is a sequence of particle identities and      *)
(* sharing a particle between two bunches is visible.                      *)
(*                                                                         *)
(* Numbers: times and time steps are Python floats (IEEE binary64) and are *)
(* kept bit for bit, their sums and products rounded to 53 bits as the     *)
(* machine rounds them.  x-positions, velocities and accelerations are     *)
(* integers, positions in tenths of the field's length unit so that the    *)
(* 10% padding of adaptiveStep is exact.                                   *)
(***************************************************************************)
EXTENDS Integers, Sequences, FiniteSets, TLC

VARIABLES heap, objs, op, warnings, nupd,
          pc, time, dt, baseStep, timeSeries, Data, protons, field, duration,
          hist, steps,
          energies, de_pc, de_i, de_n, redrawn

bvars == <<heap, objs, op, warnings, nupd>>
dvars == <<pc, time, dt, baseStep, timeSeries, Data, protons, field, duration,
           hist, steps>>
evars == <<energies, de_pc, de_i, de_n, redrawn>>
vars == <<heap, objs, op, warnings, nupd,
          pc, time, dt, baseStep, timeSeries, Data, protons, field, duration,
          hist, steps,
          energies, de_pc, de_i, de_n, redrawn>>

----------------------------------------------------------------------------
(* Bounds of the model *)

\* largest particleNumber a bunch is constructed with where only combining is explored
MaxN == 10
\* largest particleNumber where positions and velocities are enumerated
MaxMembers == 2
\* number of Bunch objects in a run; all but the last may be constructed
MaxObjs == 3
\* number of update calls in a run outside the driver
MaxUpdates == 1
\* the field's electric bounds range over -MaxBound..MaxBound
MaxBound == 1
\* the driver's durations: 2^j reduced steps for j up to MaxShort, 2^j base
\* steps for j up to MaxLong
MaxShort == 2
MaxLong == 3
\* distributeEnergies: the samples of a call, and the largest value drawn
MaxSamples == 3
MaxDraw == 1

----------------------------------------------------------------------------
(* Strings: a Python str is a sequence of one-character strings *)

Digits == <<"0", "1", "2", "3", "4", "5", "6", "7", "8", "9">>

RECURSIVE Str(_)
\* str(k) for an int k >= 0
Str(k) == IF k < 10 THEN <<Digits[k + 1]>>
          ELSE Str(k \div 10) \o <<Digits[(k % 10) + 1]>>

\* s[:-1]
DropLast(s) == IF Len(s) = 0 THEN s ELSE SubSeq(s, 1, Len(s) - 1)

\* the species label a particle's name starts with, before its index
Prefix == <<"p">>

\* the name createBunch gives the i-th particle it makes: label, then index
FreshName(i) == Prefix \o Str(i)

\* list.index(x): the first position (0-based) holding x
FirstIndex(list, x) ==
    (CHOOSE i \in 1..Len(list) :
        list[i] = x /\ \A j \in 1..(i - 1) : list[j] # x) - 1

----------------------------------------------------------------------------
(* Python floats.  A time t >= 0 is the natural number t * 2^96, written   *)
(* as its bits, lowest first, without leading zeros: every time here is a  *)
(* multiple of 2^-96 no smaller than 2^-37 or zero.                        *)

\* the bits of a binary64 significand
Precision == 53

Zeros(k) == [i \in 1..k |-> 0]

RECURSIVE Trim(_)
Trim(b) == IF Len(b) > 0 /\ b[Len(b)] = 0 THEN Trim(SubSeq(b, 1, Len(b) - 1)) ELSE b

\* the number written in hexadecimal digits, highest first
RECURSIVE FromHex(_)
FromHex(ds) ==
    IF Len(ds) = 0 THEN <<>>
    ELSE LET h == ds[Len(ds)]
         IN  <<h % 2, (h \div 2) % 2, (h \div 4) % 2, h \div 8>>
                \o FromHex(SubSeq(ds, 1, Len(ds) - 1))

Bit(b, i) == IF i <= Len(b) THEN b[i] ELSE 0

\* whether adding a and b carries into bit i: some lower bit generates a
\* carry and every bit between passes it on
Carry(a, b, i) ==
    \E j \in 1..(i - 1) :
        /\ Bit(a, j) = 1 /\ Bit(b, j) = 1
        /\ \A k \in (j + 1)..(i - 1) : Bit(a, k) + Bit(b, k) = 1

\* a + b, exactly
BAdd(a, b) ==
    LET n == IF Len(a) < Len(b) THEN Len(b) ELSE Len(a)
        m == IF Carry(a, b, n + 1) THEN n + 1 ELSE n
    IN  [i \in 1..m |->
            (Bit(a, i) + Bit(b, i) + (IF Carry(a, b, i) THEN 1 ELSE 0)) % 2]

\* a <= b
BLeq(a, b) ==
    \/ Len(a) < Len(b)
    \/ /\ Len(a) = Len(b)
       /\ \/ a = b
          \/ \E i \in 1..Len(a) :
                /\ a[i] < b[i]
                /\ \A k \in (i + 1)..Len(a) : a[k] = b[k]

\* k * s, exactly
RECURSIVE Times(_, _)
Times(k, s) == IF k = 0 THEN <<>> ELSE BAdd(Times(k - 1, s), s)

\* the 13-bit digit j (from 0) of a
RECURSIVE LimbFrom(_, _, _)
LimbFrom(a, j, i) ==
    IF i = 13 THEN 0 ELSE Bit(a, 13 * j + i + 1) * 2^i + LimbFrom(a, j, i + 1)

Limb(a, j) == LimbFrom(a, j, 0)

NLimbs(a) == (Len(a) + 12) \div 13

\* the sum of the digit products a_i * b_(k-i)
RECURSIVE ColFrom(_, _, _, _)
ColFrom(a, b, k, i) ==
    IF i > k \/ i >= NLimbs(a) THEN 0
    ELSE Limb(a, i) * Limb(b, k - i) + ColFrom(a, b, k, i + 1)

RECURSIVE MulFrom(_, _, _, _)
MulFrom(a, b, k, carry) ==
    IF k = NLimbs(a) + NLimbs(b) THEN <<>>
    ELSE LET t == ColFrom(a, b, k, 0) + carry
         IN  <<t % 8192>> \o MulFrom(a, b, k + 1, t \div 8192)

\* a * b, exactly, by long multiplication in base 2^13
BMul(a, b) ==
    LET ls == MulFrom(a, b, 0, 0)
    IN  Trim([i \in 1..(13 * Len(ls)) |->
                (ls[((i - 1) \div 13) + 1] \div 2^((i - 1) % 13)) % 2])

\* the nearest number of Precision significant bits, ties to even
Round(b) ==
    IF Len(b) <= Precision THEN b
    ELSE LET k   == Len(b) - Precision
             top == SubSeq(b, k + 1, Len(b))
             up  == b[k] = 1 /\ (top[1] = 1 \/ \E i \in 1..(k - 1) : b[i] = 1)
         IN  Zeros(k) \o (IF up THEN BAdd(top, <<1>>) ELSE top)

\* the float a + b: the exact sum, rounded
FAdd(a, b) == CHOOSE r \in {Round(x) : x \in {BAdd(a, b)}} : TRUE

\* the float 0.01 = 0x1.47ae147ae147bp-7, as 0x147ae147ae147b * 2^-59
Cent == Trim(FromHex(<<1, 4, 7, 10, 14, 1, 4, 7, 10, 14, 1, 4, 7, 11>>))

\* the float 0
FZero == <<>>

\* the float 10**(-11) = 0x1.5fd7fe1796495p-37
Literal == Zeros(7) \o Trim(FromHex(<<1, 5, 15, 13, 7, 15, 14, 1, 7, 9, 6, 4, 9, 5>>))

\* the float 2**(-36)
Dyadic == Zeros(60) \o <<1>>

\* the base steps the model runs with
DeltaTs == {Literal, Dyadic}

\* the float x * 0.01 of a base step x: the product, rounded, in units of
\* 2^-96 again
Products == [x \in DeltaTs |-> LET p == Round(BMul(x, Cent)) IN SubSeq(p, 60, Len(p))]
Hundredth(x) == Products[x]

----------------------------------------------------------------------------
(* Classes of bunch; SubProtonBunch derives from ProtonBunch *)

Classes == {"ProtonBunch", "SubProtonBunch", "ElectronBunch"}

\* issubclass(c, d) for the concrete classes
IsSubclass(c, d) == c = d \/ (c = "SubProtonBunch" /\ d = "ProtonBunch")

\* isinstance(other, self.__class__)
IsInstance(other, self) == IsSubclass(other.cls, self.cls)

----------------------------------------------------------------------------
(* Construction *)

Particle(nm, x, v) == [name |-> nm, pos |-> x, vel |-> v, acc |-> 0]

\* createBunch: bunch_number particles, named by their index, in creation order
CreateBunch(n, xs, vs) == [i \in 1..n |-> Particle(FreshName(i), xs[i], vs[i])]

\* Bunch.__init__ of a concrete class: the new Bunch object and the heap
\* holding its members
NewBunch(h, cls, n, xs, vs) ==
    [heap |-> h \o CreateBunch(n, xs, vs),
     obj  |-> [cls          |-> cls,
               bunch_number |-> n,
               bunch        |-> [i \in 1..n |-> Len(h) + i],
               hasAKE       |-> TRUE,
               bunchName    |-> <<cls>>]]

----------------------------------------------------------------------------
(* copy.deepcopy(b): every member is copied into a fresh particle object *)

DeepCopy(h, b) ==
    [heap |-> h \o [i \in 1..Len(b.bunch) |-> h[b.bunch[i]]],
     obj  |-> [b EXCEPT !.bunch = [i \in 1..Len(b.bunch) |-> Len(h) + i]]]

----------------------------------------------------------------------------
(* Bunch.__add__ *)

\* the renaming loop, from the k-th member on: each member's name loses its
\* last character and gets the member's position in the list appended
RECURSIVE Rename(_, _, _)
Rename(h, list, k) ==
    IF k > Len(list) THEN h
    ELSE LET id == list[k]
             nn == DropLast(h[id].name) \o Str(FirstIndex(list, id) + 1)
         IN  Rename([h EXCEPT ![id].name = nn], list, k + 1)

\* new_bunch.bunch_number += other.bunch_number
AddCountsDropOther(a, b) == a
AddCounts(a, b) == a + b

\* self + other: the exception raised, or the new bunch and the heap after
AddResult(h, self, other) ==
    IF ~IsInstance(other, self) THEN [err |-> "TypeError", heap |-> h]
    ELSE LET c  == DeepCopy(h, self)
             nb == [c.obj EXCEPT
                      !.bunch = @ \o other.bunch,
                      !.bunch_number = AddCounts(@, other.bunch_number),
                      !.bunchName = <<"combined">> \o other.bunchName]
         IN  IF ~nb.hasAKE
             THEN [err |-> "AttributeError", heap |-> h]
             ELSE [err  |-> "none",
                   heap |-> Rename(c.heap, nb.bunch, 1),
                   obj  |-> [nb EXCEPT !.hasAKE = FALSE]]

----------------------------------------------------------------------------
(* The field (EMField) and the particles' integrators (ChargedParticle).   *)
(* Their code is outside Bunch.py; they are modelled as four different     *)
(* deterministic one-step maps on (pos, vel, acc), in which a base step    *)
(* lasts ReductionFactor ticks and a reduced step one tick.                *)

\* the factor between a base step and a reduced step
ReductionFactor == 100

\* the length of the step deltaT in ticks
Ticks(deltaT) == IF \E d \in DeltaTs : BLeq(d, deltaT) THEN ReductionFactor ELSE 1

\* the electric acceleration at x-position x (tenths) at time t: the field
\* alternates, here with the binary order of magnitude of t
FieldAcc(f, x, t) ==
    IF 10 * f.lower <= x /\ x <= 10 * f.upper
    THEN (IF Len(t) % 2 = 0 THEN f.E ELSE -f.E)
    ELSE 0

euler(p, deltaT) ==
    LET d == Ticks(deltaT)
    IN  [p EXCEPT !.pos = p.pos + p.vel * d,
                  !.vel = p.vel + p.acc * d]

eulerCromer(p, deltaT) ==
    LET d == Ticks(deltaT)
        v == p.vel + p.acc * d
    IN  [p EXCEPT !.vel = v, !.pos = p.pos + v * d]

velocityVerlet(p, deltaT, f, t) ==
    LET d == Ticks(deltaT)
        x == p.pos + p.vel * d + (p.acc * d * d) \div 2
        a == FieldAcc(f, x, t)
    IN  [p EXCEPT !.pos = x,
                  !.vel = p.vel + ((p.acc + a) * d) \div 2,
                  !.acc = a]

RungeKutta4(p, deltaT, f, t) ==
    LET d   == Ticks(deltaT)
        mid == p.pos + (p.vel * d) \div 2
        a   == FieldAcc(f, mid, t)
        v   == p.vel + a * d
    IN  [p EXCEPT !.pos = p.pos + ((p.vel + v) * d) \div 2,
                  !.vel = v,
                  !.acc = a]

\* field.getAcceleration(particles, time, dt): sets every particle's acceleration
RECURSIVE getAcceleration(_, _, _, _, _)
getAcceleration(h, list, k, f, t) ==
    IF k > Len(list) THEN h
    ELSE getAcceleration([h EXCEPT ![list[k]].acc = FieldAcc(f, h[list[k]].pos, t)],
                         list, k + 1, f, t)

----------------------------------------------------------------------------
(* Bunch.adaptiveStep *)

\* the padding of a bound: 0.1*abs(bound), in tenths
PadTenths == 10

lowerBound(f) == PadTenths * f.lower - (IF f.lower < 0 THEN -f.lower ELSE f.lower)
upperBound(f) == PadTenths * f.upper + (IF f.upper < 0 THEN -f.upper ELSE f.upper)

\* lowerBound <= position[0] <= upperBound
InfluencedOpen(x, f) == lowerBound(f) < x /\ x < upperBound(f)
Influenced(x, f) == lowerBound(f) <= x /\ x <= upperBound(f)

\* the list electric_influence
electric_influence(h, b, f) == [i \in 1..Len(b.bunch) |-> Influenced(h[b.bunch[i]].pos, f)]

adaptiveStep(h, b, deltaT, f) ==
    IF \E i \in 1..Len(b.bunch) : electric_influence(h, b, f)[i]
    THEN Hundredth(deltaT)
    ELSE deltaT

----------------------------------------------------------------------------
(* Bunch.update *)

\* the branch of the if/elif chain taken for set_method: the integrator used
BranchEulerFallback(s) == IF s \in {0, 1, 2, 3} THEN s ELSE 0
Branch(s) ==
    CASE s = 0 -> 0
      [] s = 1 -> 1
      [] s = 2 -> 2
      [] s = 3 -> 3
      [] OTHER -> 3

\* whether the branch taken logs the warning
Warns(s) == s \notin {0, 1, 2, 3}

\* one particle's step under integrator m
Step(p, m, deltaT, f, t) ==
    CASE m = 0 -> euler(p, deltaT)
      [] m = 1 -> eulerCromer(p, deltaT)
      [] m = 2 -> velocityVerlet(p, deltaT, f, t)
      [] OTHER -> RungeKutta4(p, deltaT, f, t)

\* for particle in self.bunch: particle.<integrator>(...), from the k-th member on
RECURSIVE UpdateLoop(_, _, _, _, _, _, _)
UpdateLoop(h, list, k, m, deltaT, f, t) ==
    IF k > Len(list) THEN h
    ELSE UpdateLoop([h EXCEPT ![list[k]] = Step(@, m, deltaT, f, t)],
                    list, k + 1, m, deltaT, f, t)

update(h, b, deltaT, f, t, s) ==
    [heap |-> UpdateLoop(h, b.bunch, 1, Branch(s), deltaT, f, t),
     warn |-> IF Warns(s) THEN 1 ELSE 0]

----------------------------------------------------------------------------
(* Operations on bunches as actions.  op records the last call: its kind,  *)
(* the bunches it was applied to (a: self, b: other), the bunch it made    *)
(* (c), its selector (s), time step (dT) and time (t), what it raised or   *)
(* "ok" (res) and the time step it returned (out).                         *)

NoOp == [kind |-> "none", a |-> 0, b |-> 0, c |-> 0, s |-> 0, res |-> "none",
         dT |-> FZero, t |-> FZero, out |-> FZero]

DriverIdle ==
    /\ pc = "idle" /\ time = FZero /\ dt = FZero /\ baseStep = FZero
    /\ timeSeries = <<>> /\ Data = <<>>
    /\ protons = 0 /\ field = [lower |-> 0, upper |-> 0, E |-> 0]
    /\ duration = FZero /\ hist = <<>> /\ steps = {}

EnergiesIdle ==
    energies = <<>> /\ de_pc = "idle" /\ de_i = 0 /\ de_n = 0 /\ redrawn = {}

\* method = 2, the script's selector
method == 2

\* the field and step the bunch operations are called with where these are not enumerated
DefaultField == [lower |-> -1, upper |-> 1, E |-> 1]

\* a concrete class's constructor, with every particle at x = 0 moving at speed 1
Construct(cls, n) ==
    /\ Len(objs) < MaxObjs - 1
    /\ LET r == NewBunch(heap, cls, n, [i \in 1..n |-> 0], [i \in 1..n |-> 1])
       IN  /\ heap' = r.heap
           /\ objs' = Append(objs, r.obj)
           /\ op' = [NoOp EXCEPT !.kind = "construct", !.c = Len(objs) + 1, !.res = "ok"]
    /\ UNCHANGED <<warnings, nupd, dvars, evars>>

\* objs[a] + objs[b] returning a new bunch
AddOk(a, b) ==
    /\ Len(objs) < MaxObjs
    /\ LET r == AddResult(heap, objs[a], objs[b])
       IN  /\ r.err = "none"
           /\ heap' = r.heap
           /\ objs' = Append(objs, r.obj)
           /\ op' = [NoOp EXCEPT !.kind = "add", !.a = a, !.b = b,
                                  !.c = Len(objs) + 1, !.res = "ok"]
    /\ UNCHANGED <<warnings, nupd, dvars, evars>>

\* objs[a] + objs[b] raising
AddRaises(a, b) ==
    /\ LET r == AddResult(heap, objs[a], objs[b])
       IN  /\ r.err # "none"
           /\ heap' = r.heap
           /\ op' = [NoOp EXCEPT !.kind = "add", !.a = a, !.b = b, !.res = r.err]
    /\ UNCHANGED <<objs, warnings, nupd, dvars, evars>>

\* objs[b].update(dT, f, t, s)
Update(b, dT, f, t, s) ==
    /\ nupd < MaxUpdates
    /\ LET r == update(heap, objs[b], dT, f, t, s)
       IN  /\ heap' = r.heap
           /\ warnings' = warnings + r.warn
    /\ nupd' = nupd + 1
    /\ op' = [NoOp EXCEPT !.kind = "update", !.a = b, !.s = s, !.dT = dT,
                           !.t = t, !.res = "ok"]
    /\ UNCHANGED <<objs, dvars, evars>>

\* objs[b].adaptiveStep(dT, f)
AdaptiveStep(b, dT, f) ==
    /\ op' = [NoOp EXCEPT !.kind = "adaptiveStep", !.a = b, !.dT = dT, !.res = "ok",
                           !.out = adaptiveStep(heap, objs[b], dT, f)]
    /\ UNCHANGED <<heap, objs, warnings, nupd, dvars, evars>>

BunchInit ==
    /\ heap = <<>> /\ objs = <<>> /\ op = NoOp /\ warnings = 0 /\ nupd = 0
    /\ DriverIdle /\ EnergiesIdle

----------------------------------------------------------------------------
(* Bunches of up to MaxN particles, constructed and combined *)

CombineNext ==
    \/ \E cls \in Classes, n \in 1..MaxN : Construct(cls, n)
    \/ \E a, b \in 1..Len(objs) : AddOk(a, b)
    \/ \E a, b \in 1..Len(objs) : AddRaises(a, b)

SpecCombine == BunchInit /\ [][CombineNext]_vars

(* Bunches of 1 or MaxMembers particles, constructed, combined, stepped    *)

BunchNext ==
    \/ \E cls \in Classes, n \in {1, MaxMembers} : Construct(cls, n)
    \/ \E a, b \in 1..Len(objs) : AddOk(a, b)
    \/ \E a, b \in 1..Len(objs) : AddRaises(a, b)
    \/ \E b \in 1..Len(objs) : Update(b, Hundredth(Literal), DefaultField, FZero, method)
    \/ \E b \in 1..Len(objs) : AdaptiveStep(b, Literal, DefaultField)

Spec == BunchInit /\ [][BunchNext]_vars

----------------------------------------------------------------------------
(* Properties of construction and combination *)

\* what can be observed of bunch b: its attributes and its members' states
View(o, h, b) ==
    [cls |-> o[b].cls, bunch_number |-> o[b].bunch_number, hasAKE |-> o[b].hasAKE,
     bunchName |-> o[b].bunchName, ids |-> o[b].bunch,
     members |-> [i \in 1..Len(o[b].bunch) |-> h[o[b].bunch[i]]]]

\* the members' states without their names
Kinematics(h, list) ==
    [i \in 1..Len(list) |-> [pos |-> h[list[i]].pos, vel |-> h[list[i]].vel,
                             acc |-> h[list[i]].acc]]

\* the particle objects in bunch b's member list
MemberSet(o, b) == {o[b].bunch[i] : i \in 1..Len(o[b].bunch)}

\* C1: in every state every bunch's bunch_number is the length of its member
\* list, and a bunch just made by a + b has the sum of the operands' counts
\* and the operands' members, a's then b's, as its members.
C1_CountIsLength ==
    /\ \A x \in 1..Len(objs) : objs[x].bunch_number = Len(objs[x].bunch)
    /\ (op.kind = "add" /\ op.res = "ok") =>
          /\ objs[op.c].bunch_number
                = objs[op.a].bunch_number + objs[op.b].bunch_number
          /\ Kinematics(heap, objs[op.c].bunch)
                = Kinematics(heap, objs[op.a].bunch) \o Kinematics(heap, objs[op.b].bunch)

\* a combined bunch of three members exists after an update call
C1_Witness ==
    /\ nupd > 0
    /\ \E x \in 1..Len(objs) : ~objs[x].hasAKE /\ objs[x].bunch_number = 3

\* C2: a + b for two bunches of the same class with n members each returns a
\* bunch of 2n members, a's then b's, the member at position i named by index
\* i, without the average_kinetic_energy attribute.
C2_SequentialNames ==
    (/\ op.kind = "add"
     /\ objs[op.a].cls = objs[op.b].cls
     /\ objs[op.a].bunch_number = objs[op.b].bunch_number) =>
        /\ op.res = "ok"
        /\ LET n == objs[op.a].bunch_number
               c == objs[op.c]
           IN  /\ c.bunch_number = 2 * n
               /\ Len(c.bunch) = 2 * n
               /\ Kinematics(heap, c.bunch)
                    = Kinematics(heap, objs[op.a].bunch)
                        \o Kinematics(heap, objs[op.b].bunch)
               /\ \A i \in 1..(2 * n) : heap[c.bunch[i]].name = Prefix \o Str(i)
               /\ ~c.hasAKE

\* C3: a + b for bunches of different classes raises TypeError, makes no
\* bunch and changes nothing.
C3_TypeErrorOnDifferentClasses ==
    [][(op'.kind = "add" /\ objs[op'.a].cls # objs[op'.b].cls) =>
          /\ op'.res = "TypeError"
          /\ op'.c = 0
          /\ objs' = objs
          /\ heap' = heap]_vars

\* C4: c = a + b leaves a and b as they were, and no particle object of c
\* is a member of a or of b.
C4_OperandsUntouched ==
    [][(op'.kind = "add" /\ op'.res = "ok") =>
          \A x \in {op'.a, op'.b} :
             /\ View(objs', heap', x) = View(objs, heap, x)
             /\ MemberSet(objs', op'.c) \cap MemberSet(objs', x) = {}]_vars

----------------------------------------------------------------------------
(* One bunch in a field: adaptiveStep and update on enumerated positions *)

\* x-positions (tenths) the members start at: around the padded bounds
PosSet == {-12, -11, 0, 11, 12}

StepFields ==
    {f \in [lower : -MaxBound..MaxBound, upper : -MaxBound..MaxBound, E : {1}] :
        f.lower <= f.upper}

StepInit ==
    /\ \E n \in 1..MaxMembers, f \in StepFields :
         \E xs \in [1..n -> PosSet] :
            LET r == NewBunch(<<>>, "ProtonBunch", n, xs, [i \in 1..n |-> 1])
            IN  /\ heap = getAcceleration(r.heap, r.obj.bunch, 1, f, FZero)
                /\ objs = <<r.obj>>
                /\ field = f
    /\ op = NoOp /\ warnings = 0 /\ nupd = 0
    /\ pc = "idle" /\ time = FZero /\ dt = FZero /\ baseStep = FZero
    /\ timeSeries = <<>> /\ Data = <<>>
    /\ protons = 1 /\ duration = FZero /\ hist = <<>> /\ steps = {}
    /\ EnergiesIdle

StepNext ==
    \/ \E dT \in DeltaTs : AdaptiveStep(protons, dT, field)
    \/ \E dT \in {Literal, Hundredth(Literal)}, s \in 0..4 :
          Update(protons, dT, field, IF nupd = 0 THEN FZero ELSE Dyadic, s)

SpecStep == StepInit /\ [][StepNext]_vars

\* C5: adaptiveStep(deltaT, field) returns deltaT*0.01 exactly when some
\* member's x-position lies in [lower - 0.1|lower|, upper + 0.1|upper|], end
\* points included, and deltaT otherwise; the call changes neither the bunch,
\* its members nor the field.
C5_AdaptiveStep ==
    [][op'.kind = "adaptiveStep" =>
          LET f  == field
              lo == 10 * f.lower - (IF f.lower < 0 THEN -f.lower ELSE f.lower)
              hi == 10 * f.upper + (IF f.upper < 0 THEN -f.upper ELSE f.upper)
              near == \E id \in MemberSet(objs, op'.a) :
                         lo <= heap[id].pos /\ heap[id].pos <= hi
          IN  /\ near => op'.out = Hundredth(op'.dT) /\ op'.out # op'.dT
              /\ ~near => op'.out = op'.dT
              /\ heap' = heap /\ objs' = objs /\ field' = field]_vars

\* adaptiveStep reduced the step with one member exactly on the padded lower
\* bound and no member strictly inside the padded region
C5_Witness ==
    /\ op.kind = "adaptiveStep"
    /\ op.out = Hundredth(op.dT) /\ op.out # op.dT
    /\ \E id \in MemberSet(objs, op.a) : heap[id].pos = lowerBound(field)
    /\ \A id \in MemberSet(objs, op.a) :
          heap[id].pos <= lowerBound(field) \/ heap[id].pos >= upperBound(field)
    /\ lowerBound(field) < upperBound(field)

\* C6: update(deltaT, field, time, s) advances every member once, by Euler
\* for s = 0, Euler-Cromer for 1, velocity Verlet for 2, Runge-Kutta 4 for 3
\* and for any other s, where it also logs one warning and leaves the members
\* as a call with s = 3 does; a recognised s logs none.
C6_UpdateDispatch ==
    [][op'.kind = "update" =>
          LET s  == op'.s
              dT == op'.dT
              t  == op'.t
              after(p) ==
                 CASE s = 0 -> euler(p, dT)
                   [] s = 1 -> eulerCromer(p, dT)
                   [] s = 2 -> velocityVerlet(p, dT, field, t)
                   [] OTHER -> RungeKutta4(p, dT, field, t)
          IN  /\ Len(heap') = Len(heap)
              /\ \A id \in 1..Len(heap) :
                    heap'[id] = IF id \in MemberSet(objs, op'.a)
                                THEN after(heap[id]) ELSE heap[id]
              /\ s \in 0..3 => warnings' = warnings
              /\ s \notin 0..3 =>
                    /\ warnings' = warnings + 1
                    /\ heap' = update(heap, objs[op'.a], dT, field, t, 3).heap]_vars

\* an update with the unrecognised selector 4 moved two members and warned
C6_Witness ==
    /\ op.kind = "update" /\ op.s = 4 /\ warnings = 1
    /\ objs[op.a].bunch_number = 2
    /\ \A id \in MemberSet(objs, op.a) : heap[id].vel # 1

----------------------------------------------------------------------------
(* RecordSynchrocyclotron.py: the recording loop.  pc is the line the      *)
(* script is at; hist keeps, for each snapshot, the members' states of the *)
(* live bunch at the moment the snapshot was taken; steps collects the     *)
(* values adaptiveStep returned; baseStep is the script's deltaT.          *)

\* EMField(..., [-0.05, 0.05], ...), with 0.05 m as the unit of length
DriverField == [lower |-> -1, upper |-> 1, E |-> 1]

\* the durations of a run with base step d: zero and 2^j steps, which are
\* floats exactly
Durations(d) ==
    {FZero} \cup {Times(2^j, d) : j \in 0..MaxLong}
            \cup {Times(2^j, Hundredth(d)) : j \in 0..MaxShort}

\* (x-position, velocity) a proton starts with: in the field and moving out
\* of it, outside the padded field
DriverStarts == {<<0, 1>>, <<12, 1>>}

Members(h, o, b) == [i \in 1..Len(o[b].bunch) |-> h[o[b].bunch[i]]]

\* while time <= duration
LoopCond(t, d) == BLeq(t, d)

\* time += dt
AdvanceAssign(t, d) == d
Advance(t, d) == FAdd(t, d)

\* copy.deepcopy(protons), kept as a new Bunch object
SnapshotAlias(h, o, b) == [heap |-> h, objs |-> o, id |-> b]
Snapshot(h, o, b) ==
    LET c == DeepCopy(h, o[b])
    IN  [heap |-> c.heap, objs |-> Append(o, c.obj), id |-> Len(o) + 1]

DriverInit ==
    /\ \E n \in 1..MaxMembers :
         \E st \in [1..n -> DriverStarts] :
            LET r == NewBunch(<<>>, "ProtonBunch", n,
                              [i \in 1..n |-> st[i][1]], [i \in 1..n |-> st[i][2]])
            IN  heap = r.heap /\ objs = <<r.obj>>
    /\ protons = 1
    /\ field = DriverField
    /\ baseStep \in DeltaTs
    /\ duration \in Durations(baseStep)
    /\ time = FZero /\ dt = FZero
    /\ timeSeries = <<>> /\ Data = <<>> /\ hist = <<>> /\ steps = {}
    /\ pc = "start"
    /\ op = NoOp /\ warnings = 0 /\ nupd = 0
    /\ EnergiesIdle

\* lines 21-24: the initial snapshot and the two series
InitialSnapshot ==
    /\ pc = "start"
    /\ LET r == Snapshot(heap, objs, protons)
       IN  /\ heap' = r.heap /\ objs' = r.objs
           /\ Data' = <<r.id>>
    /\ hist' = <<Members(heap, objs, protons)>>
    /\ timeSeries' = <<FZero>>
    /\ pc' = "test"
    /\ UNCHANGED <<op, warnings, nupd, time, dt, baseStep, protons, field, duration,
                   steps, evars>>

\* line 27, the loop is entered
LoopEnter ==
    /\ pc = "test" /\ LoopCond(time, duration)
    /\ pc' = "step"
    /\ UNCHANGED <<bvars, time, dt, baseStep, timeSeries, Data, protons, field,
                   duration, hist, steps, evars>>

\* line 27, the loop is left
LoopExit ==
    /\ pc = "test" /\ ~LoopCond(time, duration)
    /\ pc' = "done"
    /\ UNCHANGED <<bvars, time, dt, baseStep, timeSeries, Data, protons, field,
                   duration, hist, steps, evars>>

\* lines 28-30
TakeStep ==
    /\ pc = "step"
    /\ \E d \in {adaptiveStep(heap, objs[protons], baseStep, field)} :
         \E t \in {Advance(time, d)} :
            /\ dt' = d
            /\ time' = t
            /\ timeSeries' = Append(timeSeries, t)
            /\ steps' = steps \cup {d}
    /\ pc' = "accel"
    /\ UNCHANGED <<bvars, baseStep, Data, protons, field, duration, hist, evars>>

\* line 31
Accelerate ==
    /\ pc = "accel"
    /\ heap' = getAcceleration(heap, objs[protons].bunch, 1, field, time)
    /\ pc' = "update"
    /\ UNCHANGED <<objs, op, warnings, nupd, time, dt, baseStep, timeSeries, Data,
                   protons, field, duration, hist, steps, evars>>

\* line 32
DriverUpdate ==
    /\ pc = "update"
    /\ LET r == update(heap, objs[protons], dt, field, time, method)
       IN  heap' = r.heap /\ warnings' = warnings + r.warn
    /\ pc' = "snap"
    /\ UNCHANGED <<objs, op, nupd, time, dt, baseStep, timeSeries, Data, protons,
                   field, duration, hist, steps, evars>>

\* lines 33-34
TakeSnapshot ==
    /\ pc = "snap"
    /\ LET r == Snapshot(heap, objs, protons)
       IN  /\ heap' = r.heap /\ objs' = r.objs
           /\ Data' = Append(Data, r.id)
    /\ hist' = Append(hist, Members(heap, objs, protons))
    /\ pc' = "test"
    /\ UNCHANGED <<op, warnings, nupd, time, dt, baseStep, timeSeries, protons, field,
                   duration, steps, evars>>

DriverNext ==
    \/ InitialSnapshot
    \/ LoopEnter
    \/ LoopExit
    \/ TakeStep
    \/ Accelerate
    \/ DriverUpdate
    \/ TakeSnapshot

SpecDriver == DriverInit /\ [][DriverNext]_vars

\* the script runs to its end: no step of it waits for anything
SpecDriverFair == DriverInit /\ [][DriverNext]_vars /\ WF_vars(DriverNext)

\* C7: when every iteration took the same step s > 0, at the end of the run
\* the snapshot series and the time series have n = floor(duration / s) + 2
\* entries, that is (n - 2) * s <= duration < (n - 1) * s, and the last time
\* recorded is the only one above duration.
C7_SeriesLength ==
    (pc = "done" /\ \E s \in steps : steps = {s}) =>
        LET s == CHOOSE x \in steps : TRUE
            n == Len(Data)
        IN  /\ s # FZero
            /\ Len(timeSeries) = n
            /\ n >= 2
            /\ BLeq(Times(n - 2, s), duration)
            /\ ~BLeq(Times(n - 1, s), duration)
            /\ ~BLeq(timeSeries[n], duration)
            /\ \A k \in 1..(n - 1) : BLeq(timeSeries[k], duration)

C9_SnapshotsIndependent ==
    /\ Len(hist) = Len(Data)
    /\ \A k \in 1..Len(Data) :
          /\ Members(heap, objs, Data[k]) = hist[k]
          /\ Data[k] # protons
          /\ MemberSet(objs, Data[k]) \cap MemberSet(objs, protons) = {}
    /\ pc \in {"test", "done"} => Len(timeSeries) = Len(Data)

\* the live bunch has moved on from three snapshots taken of it
C9_Witness ==
    /\ Len(Data) >= 3
    /\ \A k \in 1..Len(Data) :
          Members(heap, objs, Data[k]) # Members(heap, objs, protons)

----------------------------------------------------------------------------
(* Bunch.distributeEnergies.  energies is the array of samples, de_n the   *)
(* bunch's bunch_number, de_pc the line the method is at, de_i the         *)
(* position of the for loop in the array; redrawn collects the slots that  *)
(* were overwritten.  A draw of np.random.normal is any value of Draws.    *)

Draws == -1..MaxDraw

\* all([i>0 for i in energies])
AnyPositive(list) == \E i \in 1..Len(list) : list[i] > 0
AllPositive(list) == \A i \in 1..Len(list) : list[i] > 0

\* line 135: energies = np.random.normal(mu, sigma, self.bunch_number)
EnergiesInit ==
    /\ heap = <<>> /\ objs = <<>> /\ op = NoOp /\ warnings = 0 /\ nupd = 0
    /\ DriverIdle
    /\ de_n \in 1..MaxSamples
    /\ energies \in [1..de_n -> Draws]
    /\ de_pc = "while" /\ de_i = 0 /\ redrawn = {}

\* line 136, the condition holds: the for loop starts
WhileEnter ==
    /\ de_pc = "while" /\ ~AllPositive(energies)
    /\ de_pc' = "for" /\ de_i' = 1
    /\ UNCHANGED <<bvars, dvars, energies, de_n, redrawn>>

\* line 136, the condition fails; line 141: return energies
WhileExit ==
    /\ de_pc = "while" /\ AllPositive(energies)
    /\ de_pc' = "done"
    /\ UNCHANGED <<bvars, dvars, energies, de_i, de_n, redrawn>>

\* lines 137-139 for a positive energy
ForKeep ==
    /\ de_pc = "for" /\ de_i <= Len(energies)
    /\ energies[de_i] > 0
    /\ de_i' = de_i + 1
    /\ UNCHANGED <<bvars, dvars, energies, de_pc, de_n, redrawn>>

\* lines 137-140 for an energy <= 0: the first slot holding this value gets
\* the new draw v
Redraw(v) ==
    /\ de_pc = "for" /\ de_i <= Len(energies)
    /\ energies[de_i] <= 0
    /\ LET slot == FirstIndex(energies, energies[de_i]) + 1
       IN  /\ energies' = [energies EXCEPT ![slot] = v]
           /\ redrawn' = redrawn \cup {slot}
    /\ de_i' = de_i + 1
    /\ UNCHANGED <<bvars, dvars, de_pc, de_n>>

RedrawPositive == \E v \in Draws : v > 0 /\ Redraw(v)
RedrawNonPositive == \E v \in Draws : v <= 0 /\ Redraw(v)

\* the for loop is over: back to line 136
ForEnd ==
    /\ de_pc = "for" /\ de_i > Len(energies)
    /\ de_pc' = "while"
    /\ UNCHANGED <<bvars, dvars, energies, de_i, de_n, redrawn>>

EnergiesNext ==
    \/ WhileEnter
    \/ WhileExit
    \/ ForKeep
    \/ RedrawPositive
    \/ RedrawNonPositive
    \/ ForEnd

SpecEnergies == EnergiesInit /\ [][EnergiesNext]_vars

\* the method keeps running, and a redraw that can come out positive
\* infinitely often does so
SpecEnergiesFair ==
    /\ EnergiesInit /\ [][EnergiesNext]_vars
    /\ WF_vars(EnergiesNext) /\ SF_vars(RedrawPositive)

\* C10: distributeEnergies returns: it returns bunch_number samples, all
\* above 0; it leaves the resample loop only when all samples are positive
\* at once; it overwrites only samples that are <= 0, and never changes how
\* many there are.
C10_AllPositive ==
    /\ <>(de_pc = "done")
    /\ [](de_pc = "done" =>
            /\ Len(energies) = de_n
            /\ \A i \in 1..de_n : energies[i] > 0)
    /\ [][/\ (de_pc' = "done" /\ de_pc # "done") =>
                \A i \in 1..Len(energies) : energies[i] > 0
          /\ Len(energies') = Len(energies)
          /\ \A i \in 1..Len(energies) :
                energies'[i] # energies[i] => energies[i] <= 0]_vars

\* a call that had to redraw each of its three samples has returned
C10_Witness ==
    /\ de_pc = "done" /\ de_n = 3
    /\ redrawn = 1..3

====
